---- MODULE Spec2Model ----
(***************************************************************************)
(* The Shop page of src/client/src/pages/user/Cart.js (lines 84-375): the  *)
(* product fetch effect, the filter/sort effect and the filter, sort and   *)
(* reset handlers, as a state machine over the component's React state.    *)
(*                                                                         *)
(* React commits the state updates of one handler (or of one resumed       *)
(* async continuation) together and flushes the effects of a commit before *)
(* it processes the next update, so every handler is one action, every     *)
(* effect is one action, and handlers wait for pending effects.            *)
(*                                                                         *)
(* Strings are sequences of UTF-16 code units, so that toLowerCase,        *)
(* includes and the relational operators act on them as in JavaScript.     *)
(***************************************************************************)
EXTENDS Integers, Sequences, FiniteSets, TLC

VARIABLES
    token,               \* AuthContext token (line 97); NoToken is a falsy token
    products,            \* useState([]) line 88
    filteredProducts,    \* useState([]) line 89
    loading,             \* useState(true) line 90
    sortOption,          \* useState() line 91
    filterOption,        \* useState({}) line 92: the set of the object's entries
    activeSort,          \* useState(null) line 93
    filterRefValue,      \* filterRef.current.value, the text of the name input
    inflight,            \* fetch() calls awaiting their response (line 131)
    nextId,              \* number of fetchProducts invocations so far
    fetchEffectPending,  \* the [token] effect is scheduled (lines 122-158)
    filterEffectPending, \* the [filterOption, sortOption, products] effect is scheduled
    lastAttempt,         \* the fetchProducts invocation that finished last, as logged
    showPopup,           \* useState(false) line 85
    popupImage,          \* useState("") line 86
    popupName            \* useState("") line 87

\* The state of the popup notification.
popup == <<showPopup, popupImage, popupName>>

vars == <<token, products, filteredProducts, loading, sortOption, filterOption,
          activeSort, filterRefValue, inflight, nextId, fetchEffectPending,
          filterEffectPending, lastAttempt, popup>>

----------------------------------------------------------------------------
(* Bounds *)

\* Longest response body (number of products in a listing).
MaxLen == 2

\* Number of fetchProducts invocations (the mount and the token changes).
MaxFetches == 2

----------------------------------------------------------------------------
(* Values *)

NoToken == "null"

Tokens == {NoToken, "t1", "t2"}

\* Products named "aB", "Ab" and "b" (code units; uppercase sorts before
\* lowercase), of types "F", "V", "F", with ties in price, type and quantity,
\* and with image URLs "1", "2", "3".
Catalog ==
    { [id |-> 1, name |-> <<97, 66>>, type |-> <<70>>, price |-> 99,  quantity |-> 2,
       imageUrl |-> <<49>>],
      [id |-> 2, name |-> <<65, 98>>, type |-> <<86>>, price |-> 299, quantity |-> 2,
       imageUrl |-> <<50>>],
      [id |-> 3, name |-> <<98>>,     type |-> <<70>>, price |-> 99,  quantity |-> 1,
       imageUrl |-> <<51>>] }

\* Texts typed into the name input: "", "AB", "b", "Ba".
FilterInputs == { <<>>, <<65, 66>>, <<98>>, <<66, 97>> }

SortKeys == {"name", "price", "type", "quantity"}

SortOrders == {"Ascending", "Descending"}

Range(s) == { s[i] : i \in 1..Len(s) }

\* Response bodies: arrays of distinct catalog products, at most MaxLen long.
Bodies ==
    UNION { { s \in [1..n -> Catalog] : \A i, j \in 1..n : s[i] = s[j] => i = j }
            : n \in 0..MaxLen }

\* sortOption: undefined (line 91), null (line 214) or an object, which is the
\* sequence of its entries in insertion order.
Undefined == [kind |-> "undefined", entries |-> <<>>]

Null == [kind |-> "null", entries |-> <<>>]

\* The object { [key]: order } of line 203.
SortObject(key, order) == [kind |-> "object", entries |-> << <<key, order>> >>]

\* activeSort: null (lines 93, 215) or the object { key, order } of line 202,
\* whose order is the button's label.
ActiveNull == [kind |-> "null", key |-> "", order |-> ""]

ActiveObject(key, order) == [kind |-> "object", key |-> key, order |-> order]

NoAttempt == [id |-> 0, status |-> "none", data |-> <<>>]

Attempt(id, status, data) ==
    [id |-> id, status |-> status, data |-> data]

----------------------------------------------------------------------------
(* JavaScript strings and objects *)

\* String.prototype.toLowerCase on one code unit (A-Z to a-z).
LowerUnit(c) == IF c \in 65..90 THEN c + 32 ELSE c

\* String.prototype.toLowerCase (line 171).
ToLowerCase(s) == [i \in 1..Len(s) |-> LowerUnit(s[i])]

\* String.prototype.includes (line 171): sub occurs in s at some position.
Includes(s, sub) ==
    \E k \in 0..(Len(s) - Len(sub)) :
        \A i \in 1..Len(sub) : s[k + i] = sub[i]

\* s > t on strings: comparison by code units, a proper prefix being smaller.
StrGreater(s, t) ==
    \E k \in 1..Len(s) :
        /\ \A i \in 1..(k - 1) : i <= Len(t) /\ s[i] = t[i]
        /\ (k > Len(t) \/ s[k] > t[k])

\* a[key] > b[key] (lines 178-179): names and types are strings, prices and
\* quantities numbers.
Greater(a, b, key) ==
    IF key \in {"name", "type"} THEN StrGreater(a[key], b[key]) ELSE a[key] > b[key]

\* The spread { ...prev, [key]: value } of line 208, on sets of entries.
WithEntry(obj, key, value) ==
    { e \in obj : e[1] # key } \cup { <<key, value>> }

HasName(obj) == \E e \in obj : e[1] = "name"

NameOf(obj) == (CHOOSE e \in obj : e[1] = "name")[2]

\* filterOption.name as a condition (line 169): undefined and "" are falsy.
NameIsTruthy(obj) == HasName(obj) /\ NameOf(obj) # <<>>

----------------------------------------------------------------------------
(* The filter/sort pipeline, lines 167-183 *)

\* NameMatches without the toLowerCase calls: a case-sensitive match.
NameMatches_CaseSensitive(product, text) ==
    Includes(product.name, text)

\* The predicate of filtered.filter(...) (lines 170-172).
NameMatches(product, text) ==
    Includes(ToLowerCase(product.name), ToLowerCase(text))

\* Lines 167-173: the copy of products, filtered when filterOption.name is set.
Filtered(prods, fopt) ==
    IF NameIsTruthy(fopt)
    THEN SelectSeq(prods, LAMBDA p : NameMatches(p, NameOf(fopt)))
    ELSE prods

\* Comparator with the descending branch comparing as the ascending one does.
Comparator_Swapped(a, b, key, order) ==
    IF Greater(a, b, key) THEN 1 ELSE -1

\* The comparator of lines 177-180 (a[key] < b[key] is b[key] > a[key]).
\* It never returns 0.
Comparator(a, b, key, order) ==
    IF order = 1
    THEN (IF Greater(a, b, key) THEN 1 ELSE -1)
    ELSE (IF Greater(b, a, key) THEN 1 ELSE -1)

Arrangements(arr) ==
    { s \in [1..Len(arr) -> Range(arr)] : \A x \in Range(arr) : \E i \in 1..Len(arr) : s[i] = x }

\* Array.prototype.sort with the comparator (line 177). On equal keys the
\* comparator answers -1 both ways, so it is not a consistent comparator and the
\* order of such elements is implementation-defined: every arrangement that the
\* comparator accepts (it puts each element before every later one) is an outcome.
SortOutcomes(arr, key, order) ==
    { s \in Arrangements(arr) :
        \A i, j \in 1..Len(s) : i < j => Comparator(s[i], s[j], key, order) < 0 }

\* Object.entries(sortOption)[0] (line 176): the pair [key, order].
FirstEntry(sopt) == sopt.entries[1]

\* Lines 167-183: the arrays the effect may pass to setFilteredProducts.
PipelineOutcomes(prods, fopt, sopt) ==
    IF sopt.kind = "object"
    THEN SortOutcomes(Filtered(prods, fopt), FirstEntry(sopt)[1], FirstEntry(sopt)[2])
    ELSE { Filtered(prods, fopt) }

----------------------------------------------------------------------------
(* The component *)

Init ==
    /\ token \in Tokens
    /\ products = <<>>
    /\ filteredProducts = <<>>
    /\ loading = TRUE
    /\ sortOption = Undefined
    /\ filterOption = {}
    /\ activeSort = ActiveNull
    /\ filterRefValue = <<>>
    /\ inflight = {}
    /\ nextId = 0
    /\ fetchEffectPending = TRUE
    /\ filterEffectPending = TRUE
    /\ lastAttempt = NoAttempt
    /\ showPopup = FALSE
    /\ popupImage = <<>>
    /\ popupName = <<>>

\* No effect of the last commit is still to run.
Settled == ~fetchEffectPending /\ ~filterEffectPending

\* The AuthContext provider hands the component another token; the [token]
\* dependency of line 158 schedules the fetch effect.
TokenChange(t) ==
    /\ Settled
    /\ nextId < MaxFetches
    /\ t # token
    /\ token' = t
    /\ fetchEffectPending' = TRUE
    /\ UNCHANGED <<popup, products, filteredProducts, loading, sortOption, filterOption,
                   activeSort, filterRefValue, inflight, nextId,
                   filterEffectPending, lastAttempt>>

\* FetchMissingToken without the early return: it logs and goes on to fetch.
FetchMissingToken_StillFetches ==
    /\ fetchEffectPending
    /\ token = NoToken
    /\ loading' = FALSE
    /\ nextId' = nextId + 1
    /\ inflight' = inflight \cup { [id |-> nextId + 1, token |-> token] }
    /\ lastAttempt' = Attempt(nextId + 1, "notoken", <<>>)
    /\ fetchEffectPending' = FALSE
    /\ UNCHANGED <<popup, token, products, filteredProducts, sortOption, filterOption,
                   activeSort, filterRefValue, filterEffectPending>>

\* fetchProducts without a token, lines 124-128: logs, clears loading, returns.
FetchMissingToken ==
    /\ fetchEffectPending
    /\ token = NoToken
    /\ loading' = FALSE
    /\ nextId' = nextId + 1
    /\ lastAttempt' = Attempt(nextId + 1, "notoken", <<>>)
    /\ fetchEffectPending' = FALSE
    /\ UNCHANGED <<popup, token, products, filteredProducts, sortOption, filterOption,
                   activeSort, filterRefValue, inflight, filterEffectPending>>

\* FetchIssue with a setLoading(true) before the request.
FetchIssue_SetsLoading ==
    /\ fetchEffectPending
    /\ token # NoToken
    /\ loading' = TRUE
    /\ nextId' = nextId + 1
    /\ inflight' = inflight \cup { [id |-> nextId + 1, token |-> token] }
    /\ fetchEffectPending' = FALSE
    /\ UNCHANGED <<popup, token, products, filteredProducts, sortOption,
                   filterOption, activeSort, filterRefValue, filterEffectPending,
                   lastAttempt>>

\* fetchProducts with a token, lines 130-140: issues the GET and suspends.
FetchIssue ==
    /\ fetchEffectPending
    /\ token # NoToken
    /\ nextId' = nextId + 1
    /\ inflight' = inflight \cup { [id |-> nextId + 1, token |-> token] }
    /\ fetchEffectPending' = FALSE
    /\ UNCHANGED <<popup, token, products, filteredProducts, loading, sortOption,
                   filterOption, activeSort, filterRefValue, filterEffectPending,
                   lastAttempt>>

\* The effect of lines 122-158: one call of fetchProducts.
FetchEffect == FetchMissingToken \/ FetchIssue

\* FetchResolveOk without setFilteredProducts(data).
FetchResolveOk_OnlyProducts(r, data) ==
    /\ Settled
    /\ r \in inflight
    /\ inflight' = inflight \ {r}
    /\ products' = data
    /\ loading' = FALSE
    /\ filterEffectPending' = TRUE
    /\ lastAttempt' = Attempt(r.id, "ok", data)
    /\ UNCHANGED <<popup, token, filteredProducts, sortOption, filterOption, activeSort,
                   filterRefValue, nextId, fetchEffectPending>>

\* FetchResolveOk with products missing from the dependencies of the
\* filter/sort effect: the new list schedules no recomputation.
FetchResolveOk_NoRecompute(r, data) ==
    /\ Settled
    /\ r \in inflight
    /\ inflight' = inflight \ {r}
    /\ products' = data
    /\ filteredProducts' = data
    /\ loading' = FALSE
    /\ lastAttempt' = Attempt(r.id, "ok", data)
    /\ UNCHANGED <<popup, token, sortOption, filterOption, activeSort, filterRefValue,
                   nextId, fetchEffectPending, filterEffectPending>>

\* FetchResolveOk with a generation check: only the response of the latest
\* fetch is applied.
FetchResolveOk_Generation(r, data) ==
    /\ Settled
    /\ r \in inflight
    /\ inflight' = inflight \ {r}
    /\ products' = IF r.id = nextId THEN data ELSE products
    /\ filteredProducts' = IF r.id = nextId THEN data ELSE filteredProducts
    /\ loading' = FALSE
    /\ filterEffectPending' = (r.id = nextId)
    /\ lastAttempt' = Attempt(r.id, "ok", data)
    /\ UNCHANGED <<popup, token, sortOption, filterOption, activeSort, filterRefValue,
                   nextId, fetchEffectPending>>

\* Lines 142-146 and 152-154: a 2xx response whose body is data.
FetchResolveOk(r, data) ==
    /\ Settled
    /\ r \in inflight
    /\ inflight' = inflight \ {r}
    /\ products' = data
    /\ filteredProducts' = data
    /\ loading' = FALSE
    /\ filterEffectPending' = TRUE
    /\ lastAttempt' = Attempt(r.id, "ok", data)
    /\ UNCHANGED <<popup, token, sortOption, filterOption, activeSort, filterRefValue,
                   nextId, fetchEffectPending>>

\* FetchResolveNotOk that also empties the product list.
FetchResolveNotOk_ClearsList(r) ==
    /\ Settled
    /\ r \in inflight
    /\ inflight' = inflight \ {r}
    /\ products' = <<>>
    /\ loading' = FALSE
    /\ filterEffectPending' = TRUE
    /\ lastAttempt' = Attempt(r.id, "notok", <<>>)
    /\ UNCHANGED <<popup, token, filteredProducts, sortOption, filterOption, activeSort,
                   filterRefValue, nextId, fetchEffectPending>>

\* Lines 147-149 and 152-154: a response that is not 2xx.
FetchResolveNotOk(r) ==
    /\ Settled
    /\ r \in inflight
    /\ inflight' = inflight \ {r}
    /\ loading' = FALSE
    /\ lastAttempt' = Attempt(r.id, "notok", <<>>)
    /\ UNCHANGED <<popup, token, products, filteredProducts, sortOption, filterOption,
                   activeSort, filterRefValue, nextId, fetchEffectPending,
                   filterEffectPending>>

\* FetchResolveError without the finally block.
FetchResolveError_NoFinally(r) ==
    /\ Settled
    /\ r \in inflight
    /\ inflight' = inflight \ {r}
    /\ lastAttempt' = Attempt(r.id, "error", <<>>)
    /\ UNCHANGED <<popup, token, products, filteredProducts, loading, sortOption,
                   filterOption, activeSort, filterRefValue, nextId,
                   fetchEffectPending, filterEffectPending>>

\* Lines 150-154: fetch() or response.json() rejects.
FetchResolveError(r) ==
    /\ Settled
    /\ r \in inflight
    /\ inflight' = inflight \ {r}
    /\ loading' = FALSE
    /\ lastAttempt' = Attempt(r.id, "error", <<>>)
    /\ UNCHANGED <<popup, token, products, filteredProducts, sortOption, filterOption,
                   activeSort, filterRefValue, nextId, fetchEffectPending,
                   filterEffectPending>>

\* A pending fetch resolves, in any order among the pending ones.
FetchResolve ==
    \E r \in inflight :
        \/ \E data \in Bodies : FetchResolveOk(r, data)
        \/ FetchResolveNotOk(r)
        \/ FetchResolveError(r)

\* FilterEffect without the copy of line 167 (filtered = products): with no
\* filter active, sort() reorders the products array itself.
FilterEffect_SortsInPlace ==
    /\ filterEffectPending
    /\ ~fetchEffectPending
    /\ \E out \in PipelineOutcomes(products, filterOption, sortOption) :
           /\ filteredProducts' = out
           /\ products' = IF NameIsTruthy(filterOption) THEN products ELSE out
    /\ filterEffectPending' = FALSE
    /\ UNCHANGED <<popup, token, loading, sortOption, filterOption, activeSort,
                   filterRefValue, inflight, nextId, fetchEffectPending, lastAttempt>>

\* The effect of lines 166-184. Effects run in the order of their declaration,
\* so a scheduled fetch effect runs first.
FilterEffect ==
    /\ filterEffectPending
    /\ ~fetchEffectPending
    /\ \E out \in PipelineOutcomes(products, filterOption, sortOption) :
           filteredProducts' = out
    /\ filterEffectPending' = FALSE
    /\ UNCHANGED <<popup, token, products, loading, sortOption, filterOption, activeSort,
                   filterRefValue, inflight, nextId, fetchEffectPending, lastAttempt>>

\* handleSort that spreads the previous object, { ...prev, [key]: order }: a
\* key already present keeps its place, a new key is added after the others.
handleSort_Spreads(key, order) ==
    /\ Settled
    /\ activeSort' = ActiveObject(key, order)
    /\ LET prev == IF sortOption.kind = "object" THEN sortOption.entries ELSE <<>>
           value == IF order = "Ascending" THEN 1 ELSE -1
       IN  sortOption' =
               [kind |-> "object",
                entries |->
                    IF \E i \in 1..Len(prev) : prev[i][1] = key
                    THEN [i \in 1..Len(prev) |->
                             IF prev[i][1] = key THEN <<key, value>> ELSE prev[i]]
                    ELSE Append(prev, <<key, value>>)]
    /\ filterEffectPending' = TRUE
    /\ UNCHANGED <<popup, token, products, filteredProducts, loading, filterOption,
                   filterRefValue, inflight, nextId, fetchEffectPending, lastAttempt>>

\* Lines 201-204, called by the eight sort buttons (lines 242-319).
handleSort(key, order) ==
    /\ Settled
    /\ activeSort' = ActiveObject(key, order)
    /\ sortOption' = SortObject(key, IF order = "Ascending" THEN 1 ELSE -1)
    /\ filterEffectPending' = TRUE
    /\ UNCHANGED <<popup, token, products, filteredProducts, loading, filterOption,
                   filterRefValue, inflight, nextId, fetchEffectPending, lastAttempt>>

\* Lines 207-209, called by the name input's onChange (line 230) with its new text.
handleFilter(key, value) ==
    /\ Settled
    /\ value # filterRefValue
    /\ filterRefValue' = value
    /\ filterOption' = WithEntry(filterOption, key, value)
    /\ filterEffectPending' = TRUE
    /\ UNCHANGED <<popup, token, products, filteredProducts, loading, sortOption,
                   activeSort, inflight, nextId, fetchEffectPending, lastAttempt>>

\* handleReset without setSortOption(null).
handleReset_KeepsSort ==
    /\ Settled
    /\ filterOption' = {}
    /\ activeSort' = ActiveNull
    /\ filterRefValue' = <<>>
    /\ filterEffectPending' = TRUE
    /\ UNCHANGED <<popup, token, products, filteredProducts, loading, sortOption, inflight,
                   nextId, fetchEffectPending, lastAttempt>>

\* Lines 212-217.
handleReset ==
    /\ Settled
    /\ filterOption' = {}
    /\ sortOption' = Null
    /\ activeSort' = ActiveNull
    /\ filterRefValue' = <<>>
    /\ filterEffectPending' = TRUE
    /\ UNCHANGED <<popup, token, products, filteredProducts, loading, inflight, nextId,
                   fetchEffectPending, lastAttempt>>

\* Lines 193-198, called by the card of a listed product (lines 346-353); the
\* cards are rendered once loading is false and the derived list is not empty.
\* addToCart(product) acts on the CartContext, outside the component.
handleAddToCart(product) ==
    /\ Settled
    /\ loading = FALSE
    /\ product \in Range(filteredProducts)
    /\ showPopup' = TRUE
    /\ popupImage' = product.imageUrl
    /\ popupName' = product.name
    /\ UNCHANGED <<token, products, filteredProducts, loading, sortOption,
                   filterOption, activeSort, filterRefValue, inflight, nextId,
                   fetchEffectPending, filterEffectPending, lastAttempt>>

\* Lines 188-190, called by the popup's close control while it is shown.
handleClosePopup ==
    /\ Settled
    /\ showPopup = TRUE
    /\ showPopup' = FALSE
    /\ UNCHANGED <<token, products, filteredProducts, loading, sortOption,
                   filterOption, activeSort, filterRefValue, inflight, nextId,
                   fetchEffectPending, filterEffectPending, lastAttempt,
                   popupImage, popupName>>

\* The steps of the catalogue: the fetch, the pipeline and the filter, sort and
\* reset handlers.
CatalogNext ==
    \/ \E t \in Tokens : TokenChange(t)
    \/ FetchEffect
    \/ FetchResolve
    \/ FilterEffect
    \/ \E key \in SortKeys, order \in SortOrders : handleSort(key, order)
    \/ \E value \in FilterInputs : handleFilter("name", value)
    \/ handleReset

\* The steps of the popup notification.
PopupNext ==
    \/ \E product \in Catalog : handleAddToCart(product)
    \/ handleClosePopup

Next == CatalogNext \/ PopupNext

Spec == Init /\ [][Next]_vars

\* The catalogue while the popup is left alone. The popup handlers read
\* filteredProducts and loading and write the popup state only, which no step of
\* the catalogue reads.
CatalogSpec == Init /\ [][CatalogNext]_vars

\* The event loop runs every scheduled effect and delivers every response.
FairSpec ==
    /\ Spec
    /\ WF_vars(FetchEffect)
    /\ WF_vars(FilterEffect)
    /\ SF_vars(FetchResolve)

----------------------------------------------------------------------------
(* Properties *)

\* A step in which an invocation of fetchProducts runs to its end: it logs its
\* outcome, which lastAttempt records.
AttemptFinishes == lastAttempt' # lastAttempt

FailureStatuses == {"notoken", "notok", "error"}

\* C1: every invocation of fetchProducts ends with loading false, whatever its
\* outcome (missing token, 2xx, non-2xx, network error); and with effects run
\* and responses delivered, a scheduled fetch leads to loading being false.
C1_LoadingCleared ==
    /\ [][AttemptFinishes => loading' = FALSE]_vars
    /\ (fetchEffectPending ~> (loading = FALSE))

\* A fetch started by a token change has failed and loading is false.
C1_Witness ==
    /\ lastAttempt.status \in {"notok", "error"}
    /\ lastAttempt.id = nextId
    /\ nextId > 1
    /\ loading = FALSE

\* C2: the step that handles a 2xx response with body D sets products and
\* filteredProducts to D, whatever filterOption and sortOption are.
C2_SuccessSetsBoth ==
    [][(AttemptFinishes /\ lastAttempt'.status = "ok")
        => (products' = lastAttempt'.data /\ filteredProducts' = lastAttempt'.data)]_vars

\* Right after a success under an active filter and sort: the derived list is
\* the body itself although the pipeline would produce something else.
C2_Witness ==
    /\ lastAttempt.status = "ok"
    /\ filterEffectPending
    /\ products = lastAttempt.data
    /\ filteredProducts = lastAttempt.data
    /\ NameIsTruthy(filterOption)
    /\ sortOption.kind = "object"
    /\ filteredProducts \notin PipelineOutcomes(products, filterOption, sortOption)

\* C3 as stated: after any failed fetch attempt the product list is empty and
\* loading is false.
C3_EmptyAfterFailure ==
    lastAttempt.status \in FailureStatuses => (products = <<>> /\ loading = FALSE)

\* C3 as amended: a failed fetch attempt ends with loading false and with the
\* product list as it was before the attempt (empty only if it was empty).
C3_UnchangedAfterFailure ==
    [][(AttemptFinishes /\ lastAttempt'.status \in FailureStatuses)
        => (loading' = FALSE /\ products' = products)]_vars

\* A fetch failed after an earlier one had delivered products.
C3_Witness ==
    /\ lastAttempt.status \in {"notok", "error"}
    /\ products # <<>>
    /\ loading = FALSE

\* C4: a failed fetch attempt changes none of products, filteredProducts,
\* filterOption, sortOption (nor the other view state); with a missing token
\* it issues no request.
C4_FailureFrame ==
    [][(AttemptFinishes /\ lastAttempt'.status \in FailureStatuses)
        => /\ UNCHANGED <<products, filteredProducts, filterOption, sortOption,
                          activeSort, filterRefValue, token>>
           /\ (lastAttempt'.status = "notoken" => inflight' = inflight)]_vars

\* The token was cleared while products were shown under a filter and a sort.
C4_Witness ==
    /\ lastAttempt.status = "notoken"
    /\ products # <<>>
    /\ NameIsTruthy(filterOption)
    /\ sortOption.kind = "object"

\* C5: when no recomputation is pending, filteredProducts is products filtered
\* by filterOption.name and then sorted by sortOption; every change of
\* products, filterOption or sortOption schedules a recomputation, and while
\* one is scheduled the only steps are the effects themselves (the fetch
\* effect declared before it, then the recomputation): no handler, token
\* change or response comes in between.
C5_DerivedList ==
    /\ [](~filterEffectPending
            => filteredProducts \in PipelineOutcomes(products, filterOption, sortOption))
    /\ [][(products' # products \/ filterOption' # filterOption
            \/ sortOption' # sortOption) => filterEffectPending']_vars
    /\ [][filterEffectPending
            => \/ ~filterEffectPending'
               \/ (fetchEffectPending /\ ~fetchEffectPending')]_vars

\* A fetched list of two products was filtered and re-ordered.
C5_Witness ==
    /\ ~filterEffectPending
    /\ lastAttempt.status = "ok"
    /\ NameIsTruthy(filterOption)
    /\ sortOption.kind = "object"
    /\ Len(filteredProducts) >= 2
    /\ filteredProducts # products

\* x[key] <= y[key].
KeyLeq(x, y, key) ==
    IF key \in {"name", "type"}
    THEN x[key] = y[key] \/ StrGreater(y[key], x[key])
    ELSE x[key] <= y[key]

\* C6: with a sort selected and the list recomputed, every adjacent pair of
\* the derived list is in order for the selected key and direction, ties
\* included.
C6_AdjacentOrdered ==
    (~filterEffectPending /\ activeSort.kind = "object")
        => \A i \in 1..(Len(filteredProducts) - 1) :
               IF activeSort.order = "Ascending"
               THEN KeyLeq(filteredProducts[i], filteredProducts[i + 1], activeSort.key)
               ELSE KeyLeq(filteredProducts[i + 1], filteredProducts[i], activeSort.key)

\* Prices [99, 299] sorted by price descending are shown as [299, 99].
C6_Witness ==
    /\ ~filterEffectPending
    /\ activeSort = ActiveObject("price", "Descending")
    /\ Len(products) = 2
    /\ products[1].price = 99 /\ products[2].price = 299
    /\ Len(filteredProducts) = 2
    /\ filteredProducts[1].price = 299 /\ filteredProducts[2].price = 99

\* name contains text, both compared without regard to case.
ContainsIgnoringCase(name, text) ==
    \E k \in 0..(Len(name) - Len(text)) :
        \A i \in 1..Len(text) : LowerUnit(name[k + i]) = LowerUnit(text[i])

\* The position of product x in arr.
IndexIn(arr, x) == CHOOSE i \in 1..Len(arr) : arr[i] = x

\* C7: with the list recomputed, the derived list holds exactly the products
\* whose name contains the typed text case-insensitively (all of them when the
\* text is empty or was never typed), each once, and in the order of products
\* when no sort is selected.
C7_FilterExact ==
    ~filterEffectPending =>
        LET kept == { p \in Range(products) :
                        filterRefValue = <<>> \/ ContainsIgnoringCase(p.name, filterRefValue) }
        IN  /\ Range(filteredProducts) = kept
            /\ Len(filteredProducts) = Cardinality(kept)
            /\ (sortOption.kind # "object"
                  => \A i, j \in 1..Len(filteredProducts) :
                         i < j => IndexIn(products, filteredProducts[i])
                                    < IndexIn(products, filteredProducts[j]))

\* The text "AB" keeps one of two products, whose name is not "AB" as typed.
C7_Witness ==
    /\ ~filterEffectPending
    /\ filterRefValue = <<65, 66>>
    /\ sortOption.kind # "object"
    /\ Len(products) = 2
    /\ Len(filteredProducts) = 1
    /\ filteredProducts[1].name # <<65, 66>>

\* C8: once reset (no active sort, empty filterOption), sortOption is unset and
\* the input is empty, and the recomputed derived list is products itself.
C8_ResetRestores ==
    (activeSort = ActiveNull /\ filterOption = {})
        => /\ sortOption.kind # "object"
           /\ filterRefValue = <<>>
           /\ (~filterEffectPending => filteredProducts = products)

\* handleReset has run (only it sets sortOption to null) over two products.
C8_Witness ==
    /\ sortOption = Null
    /\ activeSort = ActiveNull
    /\ filterOption = {}
    /\ ~filterEffectPending
    /\ Len(products) = 2
    /\ filteredProducts = products

\* C9: a token change and a new fetch cancel no pending fetch, and every 2xx
\* response is applied when it resolves, so products is the body of the
\* response that resolved last, also when a newer fetch has resolved before.
C9_LastResolvedWins ==
    /\ [](lastAttempt.status = "ok" => products = lastAttempt.data)
    /\ [][(token' # token \/ (fetchEffectPending /\ ~fetchEffectPending'))
            => inflight \subseteq inflight']_vars

\* Two fetches were issued, the second after a token change; the one for the
\* earlier token resolved last and its body is the product list.
C9_Witness ==
    /\ nextId = 2
    /\ inflight = {}
    /\ token # NoToken
    /\ lastAttempt.id = 1
    /\ lastAttempt.status = "ok"
    /\ products = lastAttempt.data
    /\ products # <<>>

\* C10: while a fetch has not resolved, loading is true.
C10_LoadingWhileInFlight ==
    inflight # {} => loading = TRUE

\* The number handleSort stores for a direction.
DirectionNumber(label) == IF label = "Ascending" THEN 1 ELSE -1

\* C11: sortOption is unset or holds exactly one key of {name, price, type,
\* quantity} with one direction, namely the key and direction selected last;
\* and the recomputed derived list is the filtered list sorted by that key and
\* direction alone.
C11_SingleSort ==
    /\ sortOption.kind # "object" => activeSort = ActiveNull
    /\ sortOption.kind = "object"
         => /\ Len(sortOption.entries) = 1
            /\ activeSort.kind = "object"
            /\ activeSort.key \in SortKeys
            /\ sortOption.entries[1] = <<activeSort.key, DirectionNumber(activeSort.order)>>
            /\ (~filterEffectPending
                  => filteredProducts \in
                         SortOutcomes(Filtered(products, filterOption),
                                      activeSort.key, DirectionNumber(activeSort.order)))

\* handleSort has just replaced an earlier sort: the unfiltered derived list is
\* still in the order the earlier sort gave it, which is neither the order of
\* products nor an order of the sort selected now.
C11_Witness ==
    /\ filterEffectPending
    /\ sortOption.kind = "object"
    /\ Len(sortOption.entries) = 1
    /\ filterOption = {}
    /\ Len(products) = 2
    /\ Range(filteredProducts) = Range(products)
    /\ filteredProducts # products
    /\ filteredProducts \notin PipelineOutcomes(products, filterOption, sortOption)

\* C12: a recomputation of the pipeline writes filteredProducts only: it
\* leaves products (contents and order), filterOption and sortOption, and all
\* other state, as they were, with or without an active filter or sort.
C12_PipelineFrame ==
    [][(filterEffectPending /\ ~filterEffectPending')
        => UNCHANGED <<products, filterOption, sortOption, activeSort, filterRefValue,
                       loading, token, inflight, nextId, lastAttempt>>]_vars

\* With no filter active the pipeline has re-ordered the two fetched products
\* in the derived list while products is still the body as fetched.
C12_Witness ==
    /\ ~filterEffectPending
    /\ ~NameIsTruthy(filterOption)
    /\ sortOption.kind = "object"
    /\ lastAttempt.status = "ok"
    /\ products = lastAttempt.data
    /\ Len(filteredProducts) = 2
    /\ filteredProducts # products

====
